---- MODULE Spec2Model ----
(***************************************************************************)
(* A model of the UpdateHub agent: the update lifecycle state machine, the *)
(* probe / download client, the runtime settings and the boot-time         *)
(* callbacks.  Handlers whose source is available are translated from it;  *)
(* the others follow the design document.                                  *)
(***************************************************************************)
EXTENDS Integers, Sequences, FiniteSets, TLC

(* ------------------------------ bounds --------------------------------- *)

\* last instant of the modelled clock (ticks)
MaxTime == 4
\* cap of the retries counter
MaxRetries == 2
\* length of every object's payload, in bytes
ObjSize == 2
\* largest step_expect of the FakeMachine
MaxSteps == 15

(* ----------------------------- constants ------------------------------- *)

\* settings.polling.interval, in ticks
PollInterval == 3
\* the sleep between two probe attempts, in ticks
RetrySleep == 1
\* the values the server sends in add-extra-poll, in ticks
ExtraPolls == {2, 4}

NoTime == -1
NoBank == -1
NoPkg == "none"
Absent == <<-1>>

Banks == {0, 1}
Pkgs == {"p1", "p2", "p3"}
SigVals == {"valid", "invalid", "none"}
FileNames == {"a", "b", "fetched_pkg"}

\* firmware.hardware of the device
Hardware == "board"

\* the device holds a public key: updates have to be signed
RequireSignature == TRUE

\* supported-hardware of every package
SupportedHardware(p) ==
    CASE p = "p1" -> {"board"}
      [] p = "p2" -> {"board", "other"}
      [] OTHER    -> {"other"}

\* objects[bank] of every package: the sha256sums, in order (both banks carry
\* the same payloads)
Objects(p, bank) ==
    CASE p = "p1" -> <<"a", "b">>
      [] p = "p2" -> <<"b">>
      [] OTHER    -> <<"a">>

\* the payload the server holds for an object
Content(o) == [i \in 1..ObjSize |-> IF o = "a" THEN i ELSE 10 + i]

\* sha256 of a byte sequence: the name of the object with that payload
Sha256(c) ==
    IF c = Content("a") THEN "a" ELSE IF c = Content("b") THEN "b" ELSE "other"

Min(x, y) == IF x < y THEN x ELSE y
Max(x, y) == IF x < y THEN y ELSE x
Range(s) == {s[i] : i \in 1..Len(s)}

(* ------------------------------- state --------------------------------- *)

VARIABLES
    state,      \* name of the current State variant
    pkg,        \* update package carried by the state (NoPkg if none)
    sig,        \* signature that came with pkg
    err,        \* error carried by the Error state ("none" otherwise)
    trans,      \* StepTransition of the last step
    busy,       \* TRUE while Probe's handle is inside its retry loop
    settings,   \* Settings (read-only after load)
    rs,         \* RuntimeSettings in memory
    persisted,  \* RuntimeSettings as stored in the runtime-settings file
    clock,      \* current time
    files,      \* download_dir: file name -> bytes, or Absent
    active,     \* active installation set
    probe,      \* ghost: the last answered probe of the cycle
    validated,  \* ghost: the package Validation has accepted in the cycle
    gets,       \* ghost: the object GETs of the last step
    reports,    \* ghost: the reports of the last step
    installs,   \* ghost: the <<package, bank>> pairs installed so far
    reinstalled,\* ghost: some package was installed twice onto one bank
    reply,      \* ghost: the answer to the last external request
    last_step,  \* ghost: the handler or request that ran last
    attempts,   \* ghost: api-retries of the last probe attempt and the
                \* failed attempts since the last answered probe
    fake,       \* FakeMachine: step_count and step_expect
    stepper,    \* the Steps scheduled and not yet dispatched, and the
                \* transition and state an accepted request has superseded
    calls,      \* ghost: the callbacks and bootloader operations of the
                \* last step, in order, each with its outcome
    conf        \* the configuration file run is started on

\* no configuration file: the agent was started some other way
NoConf == [file |-> "none"]

vars == <<state, pkg, sig, err, trans, busy, settings, rs, persisted, clock,
          files, active, probe, validated, gets, reports, installs,
          reinstalled, reply, last_step, attempts, fake, stepper, calls,
          conf>>

DefaultRuntimeSettings ==
    [last |-> NoTime, extra_interval |-> NoTime, retries |-> 0, now |-> FALSE,
     applied_package_uid |-> NoPkg, upgrade_to_installation |-> NoBank]

NoProbe == [kind |-> "none", time |-> NoTime, pkg |-> NoPkg, extra |-> NoTime]

(* ------------------------- objects and files --------------------------- *)

\* installation_set::inactive(): the bank that is not booted
Inactive(act) == 1 - act

\* a status that takes an overlong file for a partial one
Status_LongIncomplete(o, dir) ==
    IF dir[o] = Absent THEN "Missing"
    ELSE IF Len(dir[o]) # ObjSize THEN "Incomplete"
    ELSE IF Sha256(dir[o]) # o THEN "Corrupted"
    ELSE "Ready"

\* status of an object's file in the download directory
Status(o, dir) ==
    IF dir[o] = Absent THEN "Missing"
    ELSE IF Len(dir[o]) < ObjSize THEN "Incomplete"
    ELSE IF Len(dir[o]) > ObjSize THEN "Corrupted"
    ELSE IF Sha256(dir[o]) # o THEN "Corrupted"
    ELSE "Ready"

\* the objects of a bank's list that have the given status, in list order
FilterObjects(p, bank, dir, st) ==
    SelectSeq(Objects(p, bank), LAMBDA o : Status(o, dir) = st)

\* the value of the Range header download_object sends (-1: no header)
RangeOffset(dir, o) ==
    IF dir[o] = Absent THEN -1 ELSE Max(Len(dir[o]) - 1, 0)

\* the body a server that honours Range returns for an object GET
ServerBody(o, offset) ==
    IF offset <= 0 THEN Content(o)
    ELSE SubSeq(Content(o), offset + 1, ObjSize)

\* the answers of the server to an object GET: the whole body, a body cut
\* before its last byte (the connection drops), or a failure status
GetAnswers == {"ok", "cut", "fail"}

\* Api::download_object: the file is opened in create+append mode before the
\* request is sent, and the body is appended on a success status
download_object(dir, o, answer) ==
    LET offset == RangeOffset(dir, o)
        opened == IF dir[o] = Absent THEN [dir EXCEPT ![o] = <<>>] ELSE dir
        body   == ServerBody(o, offset)
        get    == [object |-> o, range |-> offset]
    IN  CASE answer = "ok" ->
               [files |-> [opened EXCEPT ![o] = opened[o] \o body],
                ok |-> TRUE, get |-> get]
          [] answer = "cut" ->
               [files |-> [opened EXCEPT
                   ![o] = opened[o] \o SubSeq(body, 1, Len(body) - 1)],
                ok |-> FALSE, get |-> get]
          [] OTHER ->
               [files |-> opened, ok |-> FALSE, get |-> get]

\* the fetch loop of Download: the objects are fetched in order and the
\* first failure ends the loop
RECURSIVE FetchAll(_, _, _, _)
FetchAll(todo, dir, answers, log) ==
    IF todo = <<>> THEN [files |-> dir, ok |-> TRUE, gets |-> log]
    ELSE LET r == download_object(dir, Head(todo), answers[Head(todo)])
         IN  IF r.ok
             THEN FetchAll(Tail(todo), r.files, answers, Append(log, r.get))
             ELSE [files |-> r.files, ok |-> FALSE, gets |-> Append(log, r.get)]

\* the first loop of Download: files that are no object of the bank's list
\* are removed
PruneLeftover(p, bank, dir) ==
    [f \in FileNames |->
        IF f \in Range(Objects(p, bank)) THEN dir[f] ELSE Absent]

\* a second loop that leaves the Corrupted files where they are
PruneCorrupted_Keep(p, bank, dir) == dir

\* the second loop of Download: the files of Corrupted objects are removed
PruneCorrupted(p, bank, dir) ==
    [f \in FileNames |->
        IF f \in Range(FilterObjects(p, bank, dir, "Corrupted"))
        THEN Absent ELSE dir[f]]

\* the file names, in the order the directory is walked
FileOrder == <<"a", "b", "fetched_pkg">>

\* the remove_file calls of the two prune loops, in order
RemovedFiles(p, bank, dir) ==
    SelectSeq(FileOrder,
              LAMBDA f : dir[f] # Absent /\ f \notin Range(Objects(p, bank)))
      \o FilterObjects(p, bank, PruneLeftover(p, bank, dir), "Corrupted")

\* a final check that is content with one Ready object
AllReady_Any(p, bank, dir) ==
    \E i \in 1..Len(Objects(p, bank)) :
        Status(Objects(p, bank)[i], dir) = "Ready"

\* the final check of Download
AllReady(p, bank, dir) ==
    \A i \in 1..Len(Objects(p, bank)) :
        Status(Objects(p, bank)[i], dir) = "Ready"

\* a Download that fetches every object, whatever its status
DownloadHandle_FetchAll(p, act, dir, answers) ==
    LET bank    == Inactive(act)
        pruned  == PruneCorrupted(p, bank, PruneLeftover(p, bank, dir))
        fetched == FetchAll(Objects(p, bank), pruned, answers, <<>>)
    IN  IF ~fetched.ok
        THEN [files |-> fetched.files, gets |-> fetched.gets,
              next |-> "error", err |-> "Client"]
        ELSE IF AllReady(p, bank, fetched.files)
        THEN [files |-> fetched.files, gets |-> fetched.gets,
              next |-> "install", err |-> "none"]
        ELSE [files |-> fetched.files, gets |-> fetched.gets,
              next |-> "error", err |-> "ObjectsNotReady"]

\* Download's handle: the outcome for given answers of the server
DownloadHandle(p, act, dir, answers) ==
    LET bank    == Inactive(act)
        pruned  == PruneCorrupted(p, bank, PruneLeftover(p, bank, dir))
        todo    == FilterObjects(p, bank, pruned, "Missing")
                     \o FilterObjects(p, bank, pruned, "Incomplete")
        fetched == FetchAll(todo, pruned, answers, <<>>)
    IN  IF ~fetched.ok
        THEN [files |-> fetched.files, gets |-> fetched.gets,
              next |-> "error", err |-> "Client"]
        ELSE IF AllReady(p, bank, fetched.files)
        THEN [files |-> fetched.files, gets |-> fetched.gets,
              next |-> "install", err |-> "none"]
        ELSE [files |-> fetched.files, gets |-> fetched.gets,
              next |-> "error", err |-> "ObjectsNotReady"]

(* -------------------------- runtime settings --------------------------- *)

\* a run that enables persistency whatever the storage is
enable_persistency_Always(s) == TRUE

\* run: persistency is enabled unless storage is read-only
enable_persistency(s) == ~s.read_only

\* RuntimeSettings::save: every mutation is flushed when persistency is
\* enabled
Save(new) ==
    /\ rs' = new
    /\ persisted' = IF enable_persistency(settings) THEN new ELSE persisted

inc_retries(r) == [r EXCEPT !.retries = r.retries + 1]
clear_retries(r) == [r EXCEPT !.retries = 0]
set_last_polling(r, t) == [r EXCEPT !.last = t]
set_polling_extra_interval(r, n) == [r EXCEPT !.extra_interval = n]
force_poll(r) == [r EXCEPT !.now = TRUE]
disable_force_poll(r) == [r EXCEPT !.now = FALSE]
set_applied_package_uid(r, p) == [r EXCEPT !.applied_package_uid = p]
reset_installation_settings(r) ==
    [r EXCEPT !.upgrade_to_installation = NoBank, !.applied_package_uid = NoPkg]

(* ------------------------------ stepper -------------------------------- *)

\* a Step is dispatched to the machine: one is scheduled and no handler runs
StepReady(s) == state = s /\ trans = "Immediate" /\ ~busy

\* the Steps the stepper schedules for a transition: one now (Immediate),
\* one on a timer (Delayed), none (Never)
Schedule(t) == IF t = "Never" THEN 0 ELSE 1

\* what every step leaves of the ghost record of the previous one
GhostCalls(step, g, r, c) ==
    /\ last_step' = step
    /\ gets' = g
    /\ reports' = r
    /\ reply' = "none"
    /\ calls' = c

\* the same for a step that runs no callback
Ghost(step, g, r) == GhostCalls(step, g, r, <<>>)

\* Ok((next, transition)) returned by a handler
MoveTo(next, p, s, t) ==
    /\ state' = next
    /\ pkg' = p
    /\ sig' = s
    /\ err' = "none"
    /\ trans' = t
    /\ stepper' = [scheduled |-> Schedule(t), preempted |-> "none",
                 from |-> "none"]

\* Err(e) returned by a handler: the machine moves to the Error state
Fail(e) ==
    /\ state' = "error"
    /\ pkg' = NoPkg
    /\ sig' = "none"
    /\ err' = e
    /\ trans' = "Immediate"
    /\ stepper' = [scheduled |-> Schedule("Immediate"), preempted |-> "none",
                 from |-> "none"]

(* ------------------------------- states -------------------------------- *)

\* an EntryPoint that parks the stepper itself
EntryPointNext_Never(enabled) ==
    IF enabled THEN <<"poll", "Immediate">> ELSE <<"park", "Never">>

\* EntryPoint: Park when polling is disabled, Poll otherwise; the Park
\* state is stepped once more ("staying on Park state")
EntryPointNext(enabled) ==
    IF enabled THEN <<"poll", "Immediate">> ELSE <<"park", "Immediate">>

EntryPointStep ==
    /\ StepReady("entry_point")
    /\ LET next == EntryPointNext(settings.polling_enabled)
       IN  MoveTo(next[1], NoPkg, "none", next[2])
    /\ Ghost("entry_point", <<>>, <<>>)
    /\ UNCHANGED <<busy, settings, rs, persisted, clock, files, active,
                   installs, reinstalled>>
    /\ probe' = NoProbe /\ validated' = NoPkg
    /\ UNCHANGED <<attempts, fake, conf>>

\* a Park that asks for another Step
ParkTransition_Immediate == "Immediate"

\* the StepTransition Park returns
ParkTransition == "Never"

\* Park: the machine stays parked and the stepper stops
ParkStep ==
    /\ StepReady("park")
    /\ MoveTo("park", NoPkg, "none", ParkTransition)
    /\ Ghost("park", <<>>, <<>>)
    /\ UNCHANGED <<busy, settings, rs, persisted, clock, files, active,
                   installs, reinstalled>>
    /\ UNCHANGED <<probe, validated, attempts, fake, conf>>

\* Poll: the outcome of handle for a random offset; the handler sleeps the
\* polling interval itself when no probe is due
PollSleeps(r, now, offset) ==
    LET last_poll == IF r.last = NoTime THEN now + offset ELSE r.last
        extra     == IF r.extra_interval = NoTime THEN 0 ELSE r.extra_interval
    IN  /\ ~r.now
        /\ ~(last_poll > now)
        /\ ~(last_poll + extra < now)

PollStep ==
    /\ StepReady("poll")
    /\ \E offset \in 0..(PollInterval - 1) :
         IF PollSleeps(rs, clock, offset)
         THEN /\ clock + PollInterval <= MaxTime
              /\ clock' = clock + PollInterval
         ELSE clock' = clock
    /\ MoveTo("probe", NoPkg, "none", "Immediate")
    /\ Ghost("poll", <<>>, <<>>)
    /\ UNCHANGED <<busy, settings, rs, persisted, files, active, installs,
                   reinstalled>>
    /\ UNCHANGED <<probe, validated>>
    /\ UNCHANGED <<attempts, fake, conf>>

\* Api::probe that sends no retry count
ProbeHeader_Zero(r) == 0

\* Api::probe: the value of the api-retries header
ProbeHeader(r) == r.retries

\* Probe, a failed attempt of the retry loop: the counter is incremented and
\* the handler sleeps before the next attempt
ProbeAttemptFails ==
    /\ state = "probe" /\ trans = "Immediate"
    /\ rs.retries < MaxRetries
    /\ clock + RetrySleep <= MaxTime
    /\ Save(inc_retries(rs))
    /\ clock' = clock + RetrySleep
    /\ busy' = TRUE
    /\ Ghost("probe_attempt", <<>>, <<>>)
    /\ UNCHANGED <<state, pkg, sig, err, trans, settings, files, active,
                   installs, reinstalled>>
    /\ UNCHANGED <<probe, validated>>
    /\ attempts' = [header |-> ProbeHeader(rs),
                    failed |-> attempts.failed + 1]
    /\ stepper' = [scheduled |-> 0, preempted |-> "none",
                 from |-> "none"]
    /\ UNCHANGED <<fake, conf>>

\* Probe, the attempt that succeeds and the rest of handle.  The old name
\* of EntryPoint is Idle.
\* Probe that forgets to clear the retries
ProbeNoUpdateSettings_KeepRetries(r, now) == set_last_polling(r, now)

\* the runtime settings Probe leaves after a NoUpdate answer
ProbeNoUpdateSettings(r, now) == set_last_polling(clear_retries(r), now)

ProbeNoUpdate ==
    /\ state = "probe" /\ trans = "Immediate"
    /\ Save(ProbeNoUpdateSettings(rs, clock))
    /\ MoveTo("entry_point", NoPkg, "none", "Immediate")
    /\ probe' = [kind |-> "NoUpdate", time |-> clock, pkg |-> NoPkg,
                 extra |-> NoTime]
    /\ busy' = FALSE
    /\ Ghost("probe", <<>>, <<>>)
    /\ UNCHANGED <<settings, clock, files, active, installs, reinstalled>>
    /\ validated' = NoPkg
    /\ attempts' = [header |-> ProbeHeader(rs), failed |-> 0]
    /\ UNCHANGED <<fake, conf>>

\* the runtime settings Probe leaves after an ExtraPoll answer
ProbeExtraPollSettings(r, n) == set_polling_extra_interval(clear_retries(r), n)

ProbeExtraPoll ==
    /\ state = "probe" /\ trans = "Immediate"
    /\ \E n \in ExtraPolls :
         /\ Save(ProbeExtraPollSettings(rs, n))
         /\ probe' = [kind |-> "ExtraPoll", time |-> clock, pkg |-> NoPkg,
                      extra |-> n]
    /\ MoveTo("poll", NoPkg, "none", "Immediate")
    /\ busy' = FALSE
    /\ Ghost("probe", <<>>, <<>>)
    /\ UNCHANGED <<settings, clock, files, active, installs, reinstalled>>
    /\ validated' = NoPkg
    /\ attempts' = [header |-> ProbeHeader(rs), failed |-> 0]
    /\ UNCHANGED <<fake, conf>>

\* UpdatePackage::compatible_with
compatible_with(p) == Hardware \in SupportedHardware(p)

\* Probe without the already-installed check
ProbeUpdateNext_NoSkip(p, r) ==
    IF ~compatible_with(p) THEN "IncompatibleHardware" ELSE "download"

\* Probe with the already-installed check inverted
ProbeUpdateNext_Inverted(p, r) ==
    IF ~compatible_with(p) THEN "IncompatibleHardware"
    ELSE IF p # r.applied_package_uid THEN "entry_point"
    ELSE "download"

\* Probe without the compatibility check
ProbeUpdateNext_NoHardware(p, r) ==
    IF p = r.applied_package_uid THEN "entry_point" ELSE "download"

\* what Probe does with an Update answer: the error it returns or the state
\* it moves to
ProbeUpdateNext(p, r) ==
    IF ~compatible_with(p) THEN "IncompatibleHardware"
    ELSE IF p = r.applied_package_uid THEN "entry_point"
    ELSE "download"

ProbeUpdate ==
    /\ state = "probe" /\ trans = "Immediate"
    /\ \E p \in Pkgs :
         LET next == ProbeUpdateNext(p, rs)
         IN  /\ probe' = [kind |-> "Update", time |-> clock, pkg |-> p,
                          extra |-> NoTime]
             /\ CASE next = "download" ->
                       /\ Save(set_last_polling(clear_retries(rs), clock))
                       /\ MoveTo("download", p, "none", "Immediate")
                  [] next = "entry_point" ->
                       /\ Save(set_last_polling(clear_retries(rs), clock))
                       /\ MoveTo("entry_point", NoPkg, "none", "Immediate")
                  [] OTHER ->
                       /\ Save(clear_retries(rs))
                       /\ Fail(next)
    /\ busy' = FALSE
    /\ Ghost("probe", <<>>, <<>>)
    /\ UNCHANGED <<settings, clock, files, active, installs, reinstalled>>
    /\ validated' = NoPkg
    /\ attempts' = [header |-> ProbeHeader(rs), failed |-> 0]
    /\ UNCHANGED <<fake, conf>>

\* an Error handler that leaves the force-poll flag alone
ErrorHandle_KeepPoll(r) == r

\* Error's handle: the runtime settings it leaves
ErrorHandle(r) == disable_force_poll(r)

\* Error: the force-poll flag is reset and the machine returns to EntryPoint
ErrorStep ==
    /\ StepReady("error")
    /\ Save(ErrorHandle(rs))
    /\ MoveTo("entry_point", NoPkg, "none", "Immediate")
    /\ Ghost("error", <<>>, <<>>)
    /\ UNCHANGED <<busy, settings, clock, files, active, installs,
                   reinstalled>>
    /\ UNCHANGED <<probe, validated>>
    /\ UNCHANGED <<attempts, fake, conf>>

\* time passes between two steps
Tick ==
    /\ clock < MaxTime
    /\ clock' = clock + 1
    /\ UNCHANGED <<state, pkg, sig, err, trans, busy, settings, rs, persisted,
                   files, active, probe, validated, gets, reports,
                   installs, reinstalled, reply, last_step, attempts, fake,
                   stepper, calls, conf>>

\* the answers of the state-change callback ("Error": it could not be run)
Callbacks == {"Continue", "Cancel", "Error"}

\* a wrapper that handles the state whatever the callback answers
handle_with_callback_and_report_progress_IgnoreCancel(cb) ==
    IF cb = "Error" THEN "error" ELSE "handle"

\* handle_with_callback_and_report_progress: the callback fails (the error
\* is returned), answers Cancel (EntryPoint) or Continue (the state is
\* handled, with its reports)
handle_with_callback_and_report_progress(cb) ==
    CASE cb = "Continue" -> "handle"
      [] cb = "Cancel"   -> "entry_point"
      [] OTHER           -> "error"

\* the answers of the server to the two reports of a step: the one sent
\* before the handle and the one sent after it
ReportAnswers == [enter : BOOLEAN, after : BOOLEAN]

\* a field a report does not carry
NoField == "none"

\* the arguments of one Api::report call
Report(name, previous_state, error_message) ==
    [state |-> name, previous_state |-> previous_state,
     error_message |-> error_message]

\* the state names of a log of reports
ReportStates(log) == [i \in DOMAIN log |-> log[i].state]

\* the warning logged for a report that failed
Warn(ok) == IF ok THEN <<>> ELSE <<Report("warn", NoField, NoField)>>

\* a wrapper that returns the error of a failed report: the handle is not
\* reached when the enter report fails, and its result is replaced when the
\* report sent after it fails
handle_and_report_progress_Propagate(enter_state, leave_state, result, rep) ==
    IF ~rep.enter
    THEN [ok |-> FALSE, err |-> "Report",
          reports |-> <<Report(enter_state, NoField, NoField)>>]
    ELSE IF ~rep.after
    THEN [ok |-> FALSE, err |-> "Report",
          reports |-> <<Report(enter_state, NoField, NoField),
                        IF result.ok
                        THEN Report(leave_state, NoField, NoField)
                        ELSE Report("error", enter_state, result.err)>>]
    ELSE [ok |-> result.ok, err |-> result.err,
          reports |-> <<Report(enter_state, NoField, NoField),
                        IF result.ok
                        THEN Report(leave_state, NoField, NoField)
                        ELSE Report("error", enter_state, result.err)>>]

\* a wrapper that sends the leave report after a failed handle too
handle_and_report_progress_AlwaysLeave(enter_state, leave_state, result, rep) ==
    [ok |-> result.ok, err |-> result.err,
     reports |-> <<Report(enter_state, NoField, NoField)>>
                   \o Warn(rep.enter)
                   \o <<Report(leave_state, NoField, NoField)>>
                   \o Warn(rep.after)]

\* handle_and_report_progress: the result of the handle (Ok, or Err(err)),
\* whatever becomes of the reports, and the log of the reports: a failed
\* report is logged as a warning
handle_and_report_progress(enter_state, leave_state, result, rep) ==
    [ok |-> result.ok, err |-> result.err,
     reports |-> <<Report(enter_state, NoField, NoField)>>
                   \o Warn(rep.enter)
                   \o <<IF result.ok
                        THEN Report(leave_state, NoField, NoField)
                        ELSE Report("error", enter_state, result.err)>>
                   \o Warn(rep.after)]

\* Validation: signature, hardware and already-installed checks
ValidationNext(p, s, r) ==
    IF RequireSignature /\ s = "none" THEN "SignatureNotFound"
    ELSE IF RequireSignature /\ s = "invalid" THEN "InvalidSignature"
    ELSE IF ~compatible_with(p) THEN "IncompatibleHardware"
    ELSE IF r.applied_package_uid = p THEN "entry_point"
    ELSE "prepare_download"

ValidationStep ==
    /\ StepReady("validation")
    /\ LET next == ValidationNext(pkg, sig, rs)
       IN  CASE next = "prepare_download" ->
                  MoveTo("prepare_download", pkg, "none", "Immediate")
             [] next = "entry_point" ->
                  MoveTo("entry_point", NoPkg, "none", "Immediate")
             [] OTHER -> Fail(next)
    /\ Ghost("validation", <<>>, <<>>)
    /\ UNCHANGED <<busy, settings, rs, persisted, clock, files, active,
                   installs, reinstalled>>
    /\ validated' = IF ValidationNext(pkg, sig, rs) = "prepare_download"
                    THEN pkg ELSE NoPkg
    /\ UNCHANGED probe
    /\ UNCHANGED <<attempts, fake, conf>>

\* PrepareDownload: leftovers and corrupted objects are pruned
PrepareDownloadStep ==
    /\ StepReady("prepare_download")
    /\ files' = PruneCorrupted(pkg, Inactive(active),
                               PruneLeftover(pkg, Inactive(active), files))
    /\ MoveTo("download", pkg, sig, "Immediate")
    /\ Ghost("prepare_download", <<>>, <<>>)
    /\ UNCHANGED <<busy, settings, rs, persisted, clock, active, installs,
                   reinstalled>>
    /\ UNCHANGED <<probe, validated>>
    /\ UNCHANGED <<attempts, fake, conf>>

\* Download, behind the state-change callback and the progress reports
DownloadStep ==
    /\ StepReady("download")
    /\ \E cb \in Callbacks :
         CASE handle_with_callback_and_report_progress(cb) = "entry_point" ->
                /\ MoveTo("entry_point", NoPkg, "none", "Immediate")
                /\ GhostCalls("download", <<>>, <<>>,
                               <<<<"state_change_callback", cb>>>>)
                /\ files' = files
           [] handle_with_callback_and_report_progress(cb) = "error" ->
                /\ Fail("Firmware")
                /\ GhostCalls("download", <<>>, <<>>,
                               <<<<"state_change_callback", cb>>>>)
                /\ files' = files
           [] OTHER ->
                \E answers \in [{"a", "b"} -> GetAnswers] :
                \E r \in {DownloadHandle(pkg, active, files, answers)} :
                \E rep \in ReportAnswers :
                  LET w == handle_and_report_progress(
                               "downloading", "downloaded",
                               [ok |-> r.next = "install", err |-> r.err],
                               rep)
                  IN  /\ files' = r.files
                      /\ IF w.ok
                         THEN MoveTo("install", pkg, sig, "Immediate")
                         ELSE Fail(w.err)
                      /\ GhostCalls("download", r.gets, w.reports,
                               <<<<"state_change_callback", cb>>>>
                               \o [i \in 1..Len(RemovedFiles(pkg,
                                               Inactive(active), files)) |->
                                     <<"remove_file",
                                       RemovedFiles(pkg, Inactive(active),
                                                    files)[i]>>])
    /\ UNCHANGED <<busy, settings, rs, persisted, clock, active, installs,
                   reinstalled>>
    /\ UNCHANGED <<probe, validated>>
    /\ UNCHANGED <<attempts, fake, conf>>

\* ObjectInstaller::check_requirements over the objects of a package: the
\* target device of the object of p2 is not valid
check_requirements(p) == p # "p2"

\* an Install that records the package without forcing the poll
InstallHandle_NoForcePoll(r, p) == set_applied_package_uid(r, p)

\* an Install that clears the force-poll flag
InstallHandle_ClearPoll(r, p) ==
    set_applied_package_uid(disable_force_poll(r), p)

\* Install's handle: the runtime settings it leaves
InstallHandle(r, p) == set_applied_package_uid(force_poll(r), p)

InstallStep ==
    /\ StepReady("install")
    /\ \E cb \in Callbacks :
         CASE handle_with_callback_and_report_progress(cb) = "entry_point" ->
                /\ MoveTo("entry_point", NoPkg, "none", "Immediate")
                /\ GhostCalls("install", <<>>, <<>>,
                               <<<<"state_change_callback", cb>>>>)
                /\ UNCHANGED <<rs, persisted, installs, reinstalled>>
           [] handle_with_callback_and_report_progress(cb) = "error" ->
                /\ Fail("Firmware")
                /\ GhostCalls("install", <<>>, <<>>,
                               <<<<"state_change_callback", cb>>>>)
                /\ UNCHANGED <<rs, persisted, installs, reinstalled>>
           [] OTHER ->
                \E rep \in ReportAnswers :
                  LET w == handle_and_report_progress(
                               "installing", "installed",
                               [ok |-> TRUE, err |-> "none"], rep)
                  IN  /\ Save(InstallHandle(rs, pkg))
                      /\ installs' = installs \cup {<<pkg, Inactive(active)>>}
                      /\ reinstalled' =
                           (reinstalled
                              \/ <<pkg, Inactive(active)>> \in installs)
                      /\ IF w.ok
                         THEN MoveTo("reboot", pkg, sig, "Immediate")
                         ELSE Fail(w.err)
                      /\ GhostCalls("install", <<>>, w.reports,
                               <<<<"state_change_callback", cb>>>>)
    /\ UNCHANGED <<busy, settings, clock, files, active>>
    /\ UNCHANGED <<probe, validated>>
    /\ UNCHANGED <<attempts, fake, conf>>

\* what running the reboot command does: it fails, it returns (as the
\* tests' stand-in does) or the device restarts
RebootOutcomes == {"failed", "returned", "restarted"}

RebootStep ==
    /\ StepReady("reboot")
    /\ \E cb \in Callbacks :
         CASE handle_with_callback_and_report_progress(cb) = "entry_point" ->
                /\ MoveTo("entry_point", NoPkg, "none", "Immediate")
                /\ GhostCalls("reboot", <<>>, <<>>,
                               <<<<"state_change_callback", cb>>>>)
                /\ UNCHANGED rs
           [] handle_with_callback_and_report_progress(cb) = "error" ->
                /\ Fail("Firmware")
                /\ GhostCalls("reboot", <<>>, <<>>,
                               <<<<"state_change_callback", cb>>>>)
                /\ UNCHANGED rs
           [] OTHER ->
                \E out \in RebootOutcomes, rep \in ReportAnswers :
                  LET w == handle_and_report_progress(
                               "rebooting", "rebooted",
                               [ok |-> out # "failed", err |-> "Process"],
                               rep)
                  IN  IF out = "restarted"
                      THEN \* the device restarts inside the handle
                           /\ MoveTo("boot", NoPkg, "none", "Immediate")
                           /\ GhostCalls("reboot", <<>>,
                                    <<Report("rebooting", NoField, NoField)>>
                                      \o Warn(rep.enter),
                               <<<<"state_change_callback", cb>>>>)
                           /\ rs' = persisted
                      ELSE /\ IF w.ok
                              THEN MoveTo("entry_point", NoPkg, "none",
                                          "Immediate")
                              ELSE Fail(w.err)
                           /\ GhostCalls("reboot", <<>>, w.reports,
                               <<<<"state_change_callback", cb>>>>)
                           /\ UNCHANGED rs
    /\ UNCHANGED <<busy, settings, persisted, clock, files, active, installs,
                   reinstalled>>
    /\ UNCHANGED <<probe, validated>>
    /\ UNCHANGED <<attempts, fake, conf>>

\* the body of the user-supplied URL and the longest package file modelled
FetchedBody == <<9>>
MaxFetched == 2

\* the answers to the GET of DirectDownload
DirectAnswers == {"ok", "bad_status", "transport_error"}

\* DirectDownload's handle: the package file it leaves
DirectDownloadFile(dir, answer) ==
    IF answer = "ok"
    THEN [dir EXCEPT !["fetched_pkg"] =
            (IF @ = Absent THEN <<>> ELSE @) \o FetchedBody]
    ELSE dir

DirectDownloadStep ==
    /\ StepReady("direct_download")
    /\ files["fetched_pkg"] = Absent \/ Len(files["fetched_pkg"]) < MaxFetched
    /\ \E answer \in DirectAnswers :
         /\ files' = DirectDownloadFile(files, answer)
         /\ IF answer = "transport_error"
            THEN Fail("InvalidRequest")
            ELSE MoveTo("prepare_local_install", NoPkg, "none", "Immediate")
    /\ Ghost("direct_download", <<>>, <<>>)
    /\ UNCHANGED <<busy, settings, rs, persisted, clock, active, installs,
                   reinstalled>>
    /\ UNCHANGED <<probe, validated>>
    /\ UNCHANGED <<attempts, fake, conf>>

\* PrepareLocalInstall: the archive is read as if it had been probed
PrepareLocalInstallStep ==
    /\ StepReady("prepare_local_install")
    /\ \/ \E p \in Pkgs, s \in SigVals :
            MoveTo("validation", p, s, "Immediate")
       \/ Fail("Uncompress")
    /\ Ghost("prepare_local_install", <<>>, <<>>)
    /\ UNCHANGED <<busy, settings, rs, persisted, clock, files, active,
                   installs, reinstalled>>
    /\ probe' = NoProbe /\ validated' = NoPkg
    /\ UNCHANGED <<attempts, fake, conf>>

(* ------------------------------- startup ------------------------------- *)

\* what the callbacks, the bootloader and the reboot command do at boot
StartupOutcomes ==
    {"Continue", "Cancel", "validate_error", "swap_error", "rollback_error",
     "active_error", "mark_error", "reboot_error", "reboot_returned"}

\* the calls handle_startup_callbacks makes for an outcome, in order, when
\* the expected bank is the active one
StartupCalls(outcome) ==
    CASE outcome = "Continue" ->
           << <<"validate_callback", "Continue">>, <<"validate", "ok">>,
              <<"reset_installation_settings", "ok">> >>
      [] outcome = "mark_error" ->
           << <<"validate_callback", "Continue">>, <<"validate", "error">> >>
      [] outcome = "validate_error" ->
           << <<"validate_callback", "error">> >>
      [] outcome = "swap_error" ->
           << <<"validate_callback", "Cancel">>, <<"swap_active", "error">> >>
      [] outcome = "rollback_error" ->
           << <<"validate_callback", "Cancel">>, <<"swap_active", "ok">>,
              <<"rollback_callback", "error">> >>
      [] OTHER ->
           << <<"validate_callback", "Cancel">>, <<"swap_active", "ok">>,
              <<"rollback_callback", "ok">>,
              <<"reset_installation_settings", "ok">>,
              <<"reboot", CASE outcome = "reboot_error"    -> "error"
                            [] outcome = "reboot_returned" -> "returned"
                            [] OTHER                       -> "restarted">> >>
           \o (IF outcome = "reboot_returned"
               THEN << <<"reset_installation_settings", "ok">> >>
               ELSE <<>>)

\* a rollback that reboots before it clears the installation settings
StartupOnExpected_RebootFirst(r, act, outcome) ==
    [rs     |-> IF outcome \in {"Continue", "reboot_returned"}
                THEN reset_installation_settings(r) ELSE r,
     active |-> IF outcome \in {"Cancel", "rollback_error", "reboot_error",
                                "reboot_returned"}
                THEN Inactive(act) ELSE act,
     reboot |-> outcome = "Cancel",
     ok     |-> outcome \in {"Continue", "Cancel", "reboot_returned"},
     calls  |-> << <<"active", "ok">> >> \o StartupCalls(outcome)]

\* handle_startup_callbacks when the expected bank is the active one
StartupOnExpected(r, act, outcome) ==
    [rs     |-> IF outcome \in {"Continue", "Cancel", "reboot_error",
                                "reboot_returned"}
                THEN reset_installation_settings(r) ELSE r,
     active |-> IF outcome \in {"Cancel", "rollback_error", "reboot_error",
                                "reboot_returned"}
                THEN Inactive(act) ELSE act,
     reboot |-> outcome = "Cancel",
     ok     |-> outcome \in {"Continue", "Cancel", "reboot_returned"},
     calls  |-> << <<"active", "ok">> >> \o StartupCalls(outcome)]

\* a handle_startup_callbacks that keeps the installation settings when the
\* expected bank is not the active one
handle_startup_callbacks_KeepOnMismatch(r, act, outcome) ==
    IF r.upgrade_to_installation = NoBank
    THEN [rs |-> r, active |-> act, reboot |-> FALSE, ok |-> TRUE,
          calls |-> <<>>]
    ELSE IF outcome = "active_error"
    THEN [rs |-> r, active |-> act, reboot |-> FALSE, ok |-> FALSE,
          calls |-> << <<"active", "error">> >>]
    ELSE IF r.upgrade_to_installation = act
    THEN StartupOnExpected(r, act, outcome)
    ELSE [rs |-> r, active |-> act,
          reboot |-> FALSE, ok |-> TRUE, calls |-> << <<"active", "ok">> >>]

\* handle_startup_callbacks, followed by the restart it triggers after a
\* rollback
handle_startup_callbacks(r, act, outcome) ==
    IF r.upgrade_to_installation = NoBank
    THEN [rs |-> r, active |-> act, reboot |-> FALSE, ok |-> TRUE,
          calls |-> <<>>]
    ELSE IF outcome = "active_error"
    THEN [rs |-> r, active |-> act, reboot |-> FALSE, ok |-> FALSE,
          calls |-> << <<"active", "error">> >>]
    ELSE IF r.upgrade_to_installation = act
    THEN StartupOnExpected(r, act, outcome)
    ELSE [rs |-> reset_installation_settings(r), active |-> act,
          reboot |-> FALSE, ok |-> TRUE,
          calls |-> << <<"active", "ok">>,
                       <<"reset_installation_settings", "ok">> >>]

\* run: the runtime settings are loaded, the startup callbacks run, their
\* error is logged and the machine starts in EntryPoint
Boot ==
    /\ state = "boot"
    /\ \E outcome \in StartupOutcomes :
         LET r == handle_startup_callbacks(rs, active, outcome)
         IN  /\ active' = r.active
             /\ persisted' = IF enable_persistency(settings) THEN r.rs
                                                            ELSE persisted
             /\ IF r.reboot
                THEN /\ state' = "boot"
                     /\ rs' = persisted'
                ELSE /\ state' = "entry_point"
                     /\ rs' = r.rs
             /\ GhostCalls("boot", <<>>, <<>>,
                           r.calls \o (IF r.ok THEN <<>>
                                       ELSE << <<"log", "error">> >>))
    /\ pkg' = NoPkg /\ sig' = "none" /\ err' = "none"
    /\ trans' = "Immediate"
    /\ stepper' = [scheduled |-> Schedule("Immediate"), preempted |-> "none",
                 from |-> "none"]
    /\ UNCHANGED <<busy, settings, clock, files, installs, reinstalled>>
    /\ probe' = NoProbe /\ validated' = NoPkg
    /\ UNCHANGED <<attempts, fake, conf>>

(* -------------------------- external requests -------------------------- *)

\* an Install that claims to handle a download
is_handling_download_Install(s) ==
    s \in {"prepare_download", "download", "install"}

\* a Probe that lets a download be aborted
is_handling_download_Probe(s) == s \in {"probe", "prepare_download", "download"}

\* Download as the only state that lets a download be aborted
is_handling_download_OnlyDownload(s) == s = "download"

\* is_handling_download of the inner states: a download can be aborted in
\* Download and, as the test download_abort shows, in PrepareDownload
is_handling_download(s) == s \in {"prepare_download", "download"}

\* the HTTP body of the answer to an abort-download request
respond_to(response) ==
    IF response = "RequestAccepted" THEN "message" ELSE "error"

\* State::is_preemptive_state
is_preemptive_state(s) == is_handling_download(s)

\* the actor serves a request between two steps
Serving == ~busy /\ state # "boot"

\* a request that adds its Step to the one already scheduled
Supersede_Keep(n) == n + 1

\* the Step scheduled for the old state is superseded: one Step is
\* scheduled for the new state
Supersede(n) == 1

\* an accepted request replaces the state; a refused one changes nothing
Preempt(step, next) ==
    /\ Serving
    /\ IF is_preemptive_state(state)
       THEN /\ state' = next
            /\ pkg' = NoPkg /\ sig' = "none" /\ err' = "none"
            /\ trans' = "Immediate"
            /\ stepper' = [scheduled |-> Supersede(stepper.scheduled),
                            preempted |-> trans, from |-> state]
            /\ reply' = "RequestAccepted"
            /\ last_step' = step
            /\ gets' = <<>>
            /\ reports' = <<>>
            /\ calls' = <<>>
            /\ probe' = NoProbe
            /\ validated' = NoPkg
       ELSE /\ reply' = "InvalidState"
            /\ UNCHANGED <<state, pkg, sig, err, trans, last_step, gets,
                           reports, probe, validated, stepper, calls>>
    /\ UNCHANGED <<busy, settings, rs, persisted, clock, files, active,
                   installs, reinstalled, attempts, fake, conf>>

ProbeRequest == Preempt("probe_request", "probe")

LocalInstallRequest == Preempt("local_install_request", "prepare_local_install")

RemoteInstallRequest == Preempt("remote_install_request", "direct_download")

AbortDownloadRequest ==
    /\ Serving
    /\ IF is_handling_download(state)
       THEN /\ state' = "entry_point"
            /\ pkg' = NoPkg /\ sig' = "none" /\ err' = "none"
            /\ trans' = "Immediate"
            /\ stepper' = [scheduled |-> Supersede(stepper.scheduled),
                            preempted |-> trans, from |-> state]
            /\ reply' = "RequestAccepted"
            /\ last_step' = "abort_download_request"
            /\ gets' = <<>>
            /\ reports' = <<>>
            /\ calls' = <<>>
            /\ probe' = NoProbe
            /\ validated' = NoPkg
       ELSE /\ reply' = "InvalidState"
            /\ UNCHANGED <<state, pkg, sig, err, trans, last_step, gets,
                           reports, probe, validated, stepper, calls>>
    /\ UNCHANGED <<busy, settings, rs, persisted, clock, files, active,
                   installs, reinstalled, attempts, fake, conf>>

(* ---------------------------- specification ---------------------------- *)

\* the runtime-settings files the agent may find at start: none, or the one
\* an installation onto either bank has left
InitRuntimeSettings ==
    {DefaultRuntimeSettings} \cup
    {[DefaultRuntimeSettings EXCEPT !.applied_package_uid = "p1",
                                    !.upgrade_to_installation = b,
                                    !.now = TRUE] : b \in Banks}

Init ==
    /\ state = "boot"
    /\ pkg = NoPkg /\ sig = "none" /\ err = "none"
    /\ trans = "Immediate"
    /\ busy = FALSE
    /\ settings \in [polling_enabled : BOOLEAN, read_only : BOOLEAN]
    /\ persisted \in InitRuntimeSettings
    /\ rs = persisted
    /\ clock = 0
    /\ files = [f \in FileNames |-> Absent]
    /\ active = 0
    /\ probe = NoProbe
    /\ validated = NoPkg
    /\ gets = <<>>
    /\ reports = <<>>
    /\ installs = {}
    /\ reinstalled = FALSE
    /\ reply = "none"
    /\ last_step = "none"
    /\ calls = <<>>
    /\ conf = NoConf
    /\ attempts = [header |-> NoTime, failed |-> 0]
    /\ fake = [step_count |-> 0, step_expect |-> 0]
    /\ stepper = [scheduled |-> 1, preempted |-> "none",
                 from |-> "none"]

\* the update lifecycle: the server answers every probe, requests arrive
\* between the steps
Next ==
    \/ Boot
    \/ EntryPointStep
    \/ ParkStep
    \/ PollStep
    \/ ProbeNoUpdate
    \/ ProbeUpdate
    \/ ValidationStep
    \/ PrepareDownloadStep
    \/ DownloadStep
    \/ InstallStep
    \/ RebootStep
    \/ DirectDownloadStep
    \/ PrepareLocalInstallStep
    \/ ErrorStep
    \/ ProbeRequest
    \/ LocalInstallRequest
    \/ RemoteInstallRequest
    \/ AbortDownloadRequest

Spec == Init /\ [][Next]_vars

\* the download directories an earlier run may have left behind: an empty
\* one, one with an overlong object and a file of a direct download, one
\* with a partial and an empty object, one with a whole object and one
\* that has a wrong byte
DownloadDirs ==
    { [f \in FileNames |-> Absent],
      [f \in FileNames |->
          IF f = "a" THEN Content("a") \o <<1>>
          ELSE IF f = "b" THEN Absent ELSE FetchedBody],
      [f \in FileNames |->
          IF f = "a" THEN SubSeq(Content("a"), 1, 1)
          ELSE IF f = "b" THEN <<>> ELSE Absent],
      [f \in FileNames |->
          IF f = "a" THEN [Content("a") EXCEPT ![1] = 0]
          ELSE IF f = "b" THEN Content("b") ELSE Absent] }

\* the agent starts on a download directory that is not empty
InitDownload ==
    /\ state = "boot"
    /\ pkg = NoPkg /\ sig = "none" /\ err = "none"
    /\ trans = "Immediate"
    /\ busy = FALSE
    /\ settings \in [polling_enabled : BOOLEAN, read_only : {FALSE}]
    /\ persisted = DefaultRuntimeSettings
    /\ rs = persisted
    /\ clock = 0
    /\ files \in DownloadDirs
    /\ active = 0
    /\ probe = NoProbe
    /\ validated = NoPkg
    /\ gets = <<>>
    /\ reports = <<>>
    /\ installs = {}
    /\ reinstalled = FALSE
    /\ reply = "none"
    /\ last_step = "none"
    /\ calls = <<>>
    /\ conf = NoConf
    /\ attempts = [header |-> NoTime, failed |-> 0]
    /\ fake = [step_count |-> 0, step_expect |-> 0]
    /\ stepper = [scheduled |-> 1, preempted |-> "none",
                 from |-> "none"]

SpecDownload == InitDownload /\ [][Next]_vars

\* polling against a server that has no update: time passes, probes fail,
\* are answered 404 or are answered with an extra polling interval
NextPoll ==
    \/ Boot
    \/ EntryPointStep
    \/ ParkStep
    \/ PollStep
    \/ ProbeAttemptFails
    \/ ProbeNoUpdate
    \/ ProbeExtraPoll
    \/ Tick

SpecPoll == Init /\ [][NextPoll]_vars

\* the same without external requests and with a stepper that dispatches
\* every Step it has scheduled
SpecPollFair ==
    /\ SpecPoll
    /\ WF_vars(Boot)
    /\ WF_vars(EntryPointStep)
    /\ WF_vars(ParkStep)

\* polling with a stepper that dispatches every Step and a retry loop that
\* goes on; whether the server ever answers a probe is left open
SpecProbeFair ==
    /\ SpecPoll
    /\ WF_vars(Boot)
    /\ WF_vars(EntryPointStep)
    /\ WF_vars(ParkStep)
    /\ WF_vars(PollStep)
    /\ WF_vars(ProbeAttemptFails)

\* a FakeMachine that answers Never one Step late
FakeTransition_Late(f) ==
    IF f.step_count > f.step_expect THEN "Never" ELSE "Immediate"

\* FakeMachine: the handler of Step counts the Steps and answers Never
\* from the step_expect-th on
FakeTransition(f) ==
    IF f.step_count >= f.step_expect THEN "Never" ELSE "Immediate"

FakeStep ==
    /\ StepReady("fake")
    /\ fake' = [fake EXCEPT !.step_count = @ + 1]
    /\ MoveTo("fake", NoPkg, "none", FakeTransition(fake'))
    /\ Ghost("fake", <<>>, <<>>)
    /\ UNCHANGED <<busy, settings, rs, persisted, clock, files, active,
                   installs, reinstalled>>
    /\ UNCHANGED <<probe, validated, attempts, conf>>

\* the stepper is started on a FakeMachine that expects n Steps
InitFake ==
    /\ state = "fake"
    /\ pkg = NoPkg /\ sig = "none" /\ err = "none"
    /\ trans = "Immediate"
    /\ busy = FALSE
    /\ settings = [polling_enabled |-> TRUE, read_only |-> FALSE]
    /\ persisted = DefaultRuntimeSettings
    /\ rs = persisted
    /\ clock = 0
    /\ files = [f \in FileNames |-> Absent]
    /\ active = 0
    /\ probe = NoProbe
    /\ validated = NoPkg
    /\ gets = <<>>
    /\ reports = <<>>
    /\ installs = {}
    /\ reinstalled = FALSE
    /\ reply = "none"
    /\ last_step = "none"
    /\ calls = <<>>
    /\ conf = NoConf
    /\ attempts = [header |-> NoTime, failed |-> 0]
    /\ \E n \in 1..MaxSteps : fake = [step_count |-> 0, step_expect |-> n]
    /\ stepper = [scheduled |-> 1, preempted |-> "none",
                 from |-> "none"]

SpecStepper == InitFake /\ [][FakeStep]_vars

\* the states and the transitions a handler may return
States ==
    {"park", "entry_point", "poll", "probe", "validation",
     "prepare_download", "download", "install", "reboot", "direct_download",
     "prepare_local_install", "error"}

StepTransition == {"Immediate", "Delayed", "Never"}

\* the stepper sends the Step it has scheduled (at once, or when the delay
\* has passed) and the handler of the current state starts
DispatchStep ==
    /\ Serving
    /\ trans \in {"Immediate", "Delayed"}
    /\ stepper.scheduled >= 1
    /\ busy' = TRUE
    /\ stepper' = [scheduled |-> stepper.scheduled - 1, preempted |-> "none",
                 from |-> "none"]
    /\ Ghost("dispatch", <<>>, <<>>)
    /\ UNCHANGED <<state, pkg, sig, err, trans, settings, rs, persisted,
                   clock, files, active, probe, validated, installs,
                   reinstalled, attempts, fake, conf>>

\* the handler returns: any state with any transition
ReturnStep ==
    /\ busy
    /\ \E next \in States, t \in StepTransition :
         MoveTo(next, NoPkg, "none", t)
    /\ busy' = FALSE
    /\ Ghost("return", <<>>, <<>>)
    /\ UNCHANGED <<settings, rs, persisted, clock, files, active, probe,
                   validated, installs, reinstalled, attempts, fake, conf>>

\* the machine is started in EntryPoint with its first Step scheduled
InitActor ==
    /\ state = "entry_point"
    /\ pkg = NoPkg /\ sig = "none" /\ err = "none"
    /\ trans = "Immediate"
    /\ busy = FALSE
    /\ settings \in [polling_enabled : BOOLEAN, read_only : BOOLEAN]
    /\ persisted = DefaultRuntimeSettings
    /\ rs = persisted
    /\ clock = 0
    /\ files = [f \in FileNames |-> Absent]
    /\ active = 0
    /\ probe = NoProbe
    /\ validated = NoPkg
    /\ gets = <<>>
    /\ reports = <<>>
    /\ installs = {}
    /\ reinstalled = FALSE
    /\ reply = "none"
    /\ last_step = "none"
    /\ calls = <<>>
    /\ conf = NoConf
    /\ attempts = [header |-> NoTime, failed |-> 0]
    /\ fake = [step_count |-> 0, step_expect |-> 0]
    /\ stepper = [scheduled |-> 1, preempted |-> "none",
                 from |-> "none"]

\* the mailbox of the actor: Steps of any machine, interleaved with the
\* external requests
NextActor ==
    \/ DispatchStep
    \/ ReturnStep
    \/ ProbeRequest
    \/ LocalInstallRequest
    \/ RemoteInstallRequest
    \/ AbortDownloadRequest

SpecActor == InitActor /\ [][NextActor]_vars

(* ------------------------------ settings ------------------------------- *)

\* the polling intervals written in the file, in seconds
Intervals == {0, 1, 59, 60, 61, 3600}

\* the shortest polling interval Settings::parse accepts, in seconds
MinInterval == 60

\* the server addresses written in the file, as strings of characters
Addresses ==
    {<<"h", "t", "t", "p", ":", "/", "/", "a">>,
     <<"h", "t", "t", "p", "s", ":", "/", "/", "a">>,
     <<"h", "t", "t", "p", ":", "/", "/">>,
     <<"h", "t", "t", "p", ":", "/", "a">>,
     <<"h", "t", "t", "p", "s", ":", "/">>,
     <<"H", "T", "T", "P", ":", "/", "/", "a">>,
     <<"f", "t", "p", ":", "/", "/", "a">>,
     <<"a", "h", "t", "t", "p", ":", "/", "/">>,
     <<"a">>,
     <<>>}

\* str::starts_with
starts_with(s, prefix) ==
    /\ Len(s) >= Len(prefix)
    /\ SubSeq(s, 1, Len(prefix)) = prefix

\* the configuration files: none, one serde_ini cannot read, or one with a
\* polling interval, a server address and the two switches
ConfFiles ==
    {NoConf, [file |-> "garbled"]} \cup
    [file : {"ini"}, interval : Intervals, server_address : Addresses,
     enabled : BOOLEAN, read_only : BOOLEAN]

\* Settings::default
DefaultSettings ==
    [interval |-> 86400,
     server_address |-> <<"h", "t", "t", "p", "s", ":", "/", "/", "a">>,
     enabled |-> TRUE, read_only |-> FALSE]

\* a parse that checks the interval only
parse_IntervalOnly(content) ==
    IF content.file = "garbled"
    THEN [ok |-> FALSE, err |-> "Ini"]
    ELSE IF content.interval < MinInterval
    THEN [ok |-> FALSE, err |-> "InvalidInterval"]
    ELSE [ok |-> TRUE, err |-> "none"]

\* Settings::parse: Ok(settings) or the error
parse(content) ==
    IF content.file = "garbled"
    THEN [ok |-> FALSE, err |-> "Ini"]
    ELSE IF content.interval < MinInterval
    THEN [ok |-> FALSE, err |-> "InvalidInterval"]
    ELSE IF /\ ~starts_with(content.server_address,
                            <<"h", "t", "t", "p", ":", "/", "/">>)
            /\ ~starts_with(content.server_address,
                            <<"h", "t", "t", "p", "s", ":", "/", "/">>)
    THEN [ok |-> FALSE, err |-> "InvalidServerAddress"]
    ELSE [ok |-> TRUE, err |-> "none"]

\* Settings::load: the defaults when there is no file, else the parsed file
load(content) ==
    IF content.file = "none"
    THEN [ok |-> TRUE, err |-> "none", settings |-> DefaultSettings]
    ELSE [ok |-> parse(content).ok, err |-> parse(content).err,
          settings |-> content]

\* run, up to the start of the agent: the settings are loaded; an error
\* ends the process, otherwise the agent goes on with these settings
LoadSettings ==
    /\ state = "load"
    /\ LET r == load(conf)
       IN  IF r.ok
           THEN /\ state' = "boot"
                /\ err' = "none"
                /\ settings' = [polling_enabled |-> r.settings.enabled,
                                read_only |-> r.settings.read_only,
                                interval |-> r.settings.interval,
                                server_address |-> r.settings.server_address]
           ELSE /\ state' = "exit"
                /\ err' = r.err
                /\ UNCHANGED settings
    /\ last_step' = "load"
    /\ UNCHANGED <<pkg, sig, trans, busy, rs, persisted, clock, files, active,
                   probe, validated, gets, reports, installs, reinstalled,
                   reply, attempts, fake, stepper, calls, conf>>

\* the process is started on any configuration file
InitSettings ==
    /\ state = "load"
    /\ pkg = NoPkg /\ sig = "none" /\ err = "none"
    /\ trans = "Immediate"
    /\ busy = FALSE
    /\ settings = [polling_enabled |-> TRUE, read_only |-> FALSE]
    /\ persisted = DefaultRuntimeSettings
    /\ rs = persisted
    /\ clock = 0
    /\ files = [f \in FileNames |-> Absent]
    /\ active = 0
    /\ probe = NoProbe
    /\ validated = NoPkg
    /\ gets = <<>>
    /\ reports = <<>>
    /\ installs = {}
    /\ reinstalled = FALSE
    /\ reply = "none"
    /\ last_step = "none"
    /\ calls = <<>>
    /\ conf \in ConfFiles
    /\ attempts = [header |-> NoTime, failed |-> 0]
    /\ fake = [step_count |-> 0, step_expect |-> 0]
    /\ stepper = [scheduled |-> 1, preempted |-> "none",
                 from |-> "none"]

SpecSettings == InitSettings /\ [][LoadSettings]_vars

(* ------------------------------- client ------------------------------- *)

\* the two Api clients of the source tree
ApiVersions == {"blocking", "async"}

\* the build profiles: arithmetic overflow panics in a debug build and wraps
\* in a release build
Builds == {"debug", "release"}

\* the width the u64 file length is modelled with
OffsetBits == 8

\* the offset of the blocking client, `len() - 1` on an unsigned length
RangeOffsetBlocking(dir, o, build) ==
    IF dir[o] = Absent THEN [panic |-> FALSE, range |-> -1]
    ELSE [panic |-> Len(dir[o]) - 1 < 0 /\ build = "debug",
          range |-> (Len(dir[o]) - 1) % (2 ^ OffsetBits)]

\* Api::download_object of the blocking client: the offset is computed
\* before the file is opened and the request is sent
download_object_blocking(dir, o, answer, build) ==
    LET offset == RangeOffsetBlocking(dir, o, build)
        opened == IF dir[o] = Absent THEN [dir EXCEPT ![o] = <<>>] ELSE dir
        body   == ServerBody(o, offset.range)
        get    == [object |-> o, range |-> offset.range]
    IN  CASE offset.panic ->
               [files |-> dir, ok |-> FALSE, gets |-> <<>>, panic |-> TRUE]
          [] answer = "ok" ->
               [files |-> [opened EXCEPT ![o] = opened[o] \o body],
                ok |-> TRUE, gets |-> <<get>>, panic |-> FALSE]
          [] answer = "cut" ->
               [files |-> [opened EXCEPT
                   ![o] = opened[o] \o SubSeq(body, 1, Len(body) - 1)],
                ok |-> FALSE, gets |-> <<get>>, panic |-> FALSE]
          [] OTHER ->
               [files |-> opened, ok |-> FALSE, gets |-> <<get>>,
                panic |-> FALSE]

\* download_object of either client
ApiDownloadObject(api, dir, o, answer, build) ==
    IF api = "blocking" THEN download_object_blocking(dir, o, answer, build)
    ELSE LET r == download_object(dir, o, answer)
         IN  [files |-> r.files, ok |-> r.ok, gets |-> <<r.get>>,
              panic |-> FALSE]

\* the states a file of the download directory can be in: absent, empty,
\* partial, whole, whole with a wrong byte, overlong
FileStates(f) ==
    { Absent, <<>>, SubSeq(Content(f), 1, 1), Content(f),
      [Content(f) EXCEPT ![1] = 0], Content(f) \o <<1>> }

\* one call of download_object on a directory in any state
ClientGet ==
    /\ state = "client"
    /\ \E o \in {"a", "b"}, answer \in GetAnswers, api \in ApiVersions,
          build \in Builds :
         \E r \in {ApiDownloadObject(api, files, o, answer, build)} :
            /\ files' = r.files
            /\ gets' = r.gets
            /\ err' = IF r.panic THEN "panic"
                      ELSE IF r.ok THEN "none" ELSE "InvalidStatusResponse"
            /\ calls' = <<<<"download_object", api, o>>>>
    /\ state' = "client_done"
    /\ last_step' = "download_object"
    /\ UNCHANGED <<pkg, sig, trans, busy, settings, rs, persisted, clock,
                   active, probe, validated, reports, installs, reinstalled,
                   reply, attempts, fake, stepper, conf>>

InitClient ==
    /\ state = "client"
    /\ pkg = NoPkg /\ sig = "none" /\ err = "none"
    /\ trans = "Immediate"
    /\ busy = FALSE
    /\ settings = [polling_enabled |-> TRUE, read_only |-> FALSE]
    /\ persisted = DefaultRuntimeSettings
    /\ rs = persisted
    /\ clock = 0
    /\ files \in {d \in [FileNames -> UNION {FileStates(f) : f \in FileNames}] :
                    /\ d["fetched_pkg"] = Absent
                    /\ \A f \in FileNames : d[f] \in FileStates(f)}
    /\ active = 0
    /\ probe = NoProbe
    /\ validated = NoPkg
    /\ gets = <<>>
    /\ reports = <<>>
    /\ installs = {}
    /\ reinstalled = FALSE
    /\ reply = "none"
    /\ last_step = "none"
    /\ calls = <<>>
    /\ conf = NoConf
    /\ attempts = [header |-> NoTime, failed |-> 0]
    /\ fake = [step_count |-> 0, step_expect |-> 0]
    /\ stepper = [scheduled |-> 1, preempted |-> "none",
                 from |-> "none"]

SpecClient == InitClient /\ [][ClientGet]_vars

(* ------------------------------ properties ----------------------------- *)

\* a step of the named handler happens in the state of that name
StepOf(s) == state = s /\ last_step' = s

\* the file of object o holds exactly the payload of o
Complete(dir, o) == dir[o] = Content(o)

\* the objects of the bank the current package is written to
TargetObjects == Range(Objects(pkg, Inactive(active)))

\* C1: a package is in PrepareDownload, Download or Install only after
\* Validation (signature and hardware) has accepted this package in the
\* same cycle.
C1_ValidatedBeforeDownload ==
    state \in {"prepare_download", "download", "install"} => validated = pkg

\* C2: no package is installed twice onto the same bank.
C2_AtMostOnce == ~reinstalled

\* C2, as amended: Install never completes for a package whose uid is the
\* applied-package-uid the runtime settings hold at that moment.
C2_NoInstallOfApplied ==
    [][(StepOf("install") /\ state' = "reboot")
         => rs.applied_package_uid # pkg]_vars

C2_Witness ==
    /\ last_step = "install" /\ state = "reboot"
    /\ Cardinality(installs) = 2
    /\ ~reinstalled

\* C3: when Install has returned Ok, applied-package-uid is the uid of the
\* installed package and upgrade-to-installation is the bank that was
\* inactive when Install started.
C3_InstallRecordsBank ==
    (last_step = "install" /\ state = "reboot")
        => /\ rs.applied_package_uid = pkg
           /\ rs.upgrade_to_installation = Inactive(active)

\* C4: a probe answered with the package whose uid is applied-package-uid
\* moves to EntryPoint with an Immediate transition, fetches no object and
\* touches no file.
C4_SkipSamePackage ==
    [][(StepOf("probe") /\ probe'.kind = "Update"
          /\ probe'.pkg = rs.applied_package_uid)
         => /\ state' = "entry_point"
            /\ trans' = "Immediate"
            /\ gets' = <<>>
            /\ files' = files]_vars

C4_Witness ==
    /\ last_step = "probe" /\ probe.kind = "Update"
    /\ probe.pkg = rs.applied_package_uid
    /\ state = "entry_point"

\* C5: a probed package whose supported-hardware lacks the firmware's
\* hardware makes the transition fail with IncompatibleHardware, the Error
\* state is left for EntryPoint only, and no package in PrepareDownload,
\* Download or Install is incompatible.
C5_IncompatibleHardware ==
    /\ [][(StepOf("probe") /\ probe'.kind = "Update"
             /\ Hardware \notin SupportedHardware(probe'.pkg))
            => (state' = "error" /\ err' = "IncompatibleHardware")]_vars
    /\ [][(state = "error" /\ state' # "error")
            => (state' = "entry_point" /\ trans' = "Immediate")]_vars
    /\ [](state \in {"prepare_download", "download", "install"}
            => Hardware \in SupportedHardware(pkg))

C5_Witness ==
    /\ last_step = "error" /\ state = "entry_point"
    /\ probe.kind = "Update"
    /\ Hardware \notin SupportedHardware(probe.pkg)

\* C6: when Download moves to Install every object of the inactive bank's
\* list is complete in the download directory; when the fetches went through
\* and some object is not, Download fails with ObjectsNotReady.
C6_DownloadOk ==
    [][(StepOf("download") /\ reports' # <<>>)
         => /\ state' = "install"
                => \A o \in TargetObjects : Complete(files', o)
            /\ (state' = "error" /\ err' # "Client")
                => /\ err' = "ObjectsNotReady"
                   /\ \E o \in TargetObjects : ~Complete(files', o)
            /\ state' \in {"install", "error"}]_vars

C6_Witness ==
    /\ last_step = "download" /\ state = "install"
    /\ Len(gets) = 2
    /\ \A o \in TargetObjects : Complete(files, o)

\* C7: when the file of an object holds the first L bytes of the payload,
\* 0 < L < size, and the server answers the GET, the GET carried
\* Range: bytes=(L-1)- and the file is the whole payload afterwards.
C7_ResumeCompletes ==
    [][(StepOf("download") /\ (state' = "install" \/ err' = "ObjectsNotReady"))
         => \A o \in TargetObjects :
              (/\ files[o] # Absent
               /\ Len(files[o]) > 0 /\ Len(files[o]) < ObjSize
               /\ files[o] = SubSeq(Content(o), 1, Len(files[o])))
                => /\ \E i \in 1..Len(gets') :
                        gets'[i] = [object |-> o, range |-> Len(files[o]) - 1]
                   /\ Complete(files', o)]_vars

\* C8: a Download that finds the directory as a completed Download leaves
\* it sends no GET, changes no file and moves to Install.
C8_SecondRunIdempotent ==
    [][(/\ StepOf("download") /\ reports' # <<>>
        /\ \A f \in FileNames :
             files[f] = IF f \in TargetObjects THEN Content(f) ELSE Absent)
         => /\ gets' = <<>>
            /\ files' = files
            /\ state' = "install" /\ pkg' = pkg]_vars

C8_Witness ==
    /\ last_step = "download" /\ state = "install"
    /\ gets = <<>>
    /\ ReportStates(reports) = <<"downloading", "downloaded">>

\* C9: a probe answered 404 sets last to the current time and retries to 0,
\* changes no other runtime setting and moves to EntryPoint with an
\* Immediate transition.
C9_NoUpdate ==
    [][(StepOf("probe") /\ probe'.kind = "NoUpdate")
         => /\ rs' = [rs EXCEPT !.last = clock, !.retries = 0]
            /\ clock' = clock
            /\ state' = "entry_point"
            /\ trans' = "Immediate"]_vars

C9_Witness ==
    /\ last_step = "probe" /\ probe.kind = "NoUpdate"
    /\ state = "entry_point"
    /\ clock > 0 /\ rs.last = clock
    /\ rs.extra_interval # NoTime

\* C10: after a probe answered with add-extra-poll: N the runtime settings
\* hold extra_interval = N and last = the time of that probe, the machine is
\* in Poll, and no probe is sent before N has elapsed since that probe.
C10_ExtraPollWaits ==
    /\ []((last_step = "probe" /\ probe.kind = "ExtraPoll")
            => /\ rs.extra_interval = probe.extra
               /\ rs.last = probe.time
               /\ state = "poll")
    /\ [][(state = "probe" /\ last_step' \in {"probe", "probe_attempt"}
             /\ probe.kind = "ExtraPoll")
            => clock >= probe.time + probe.extra]_vars

\* a probe attempt that fails
FailedAttempt == attempts'.failed = attempts.failed + 1

\* C11: a failed probe attempt adds exactly one to retries and leaves the
\* handler in its loop, which only another attempt ends; every attempt
\* carries in api-retries the number of failed attempts since the last
\* answered probe; the attempt that is answered sets retries to 0 and does
\* not move to Error.
C11_RetriesCount ==
    /\ [][FailedAttempt
            => /\ rs'.retries = rs.retries + 1
               /\ attempts'.header = attempts.failed
               /\ state' = "probe" /\ busy']_vars
    /\ [][(busy /\ attempts' = attempts) => UNCHANGED <<state, rs>>]_vars
    /\ [][StepOf("probe")
            => /\ attempts'.header = attempts.failed
               /\ rs'.retries = 0
               /\ state' # "error"]_vars

C11_Witness ==
    /\ last_step = "probe" /\ state \in {"entry_point", "poll"}
    /\ attempts.header = MaxRetries
    /\ rs.retries = 0

\* C12: a Poll step that finds the force-poll flag set moves to Probe with
\* an Immediate transition, without waiting, and leaves the flag false.
C12_ForcedPollOnce ==
    [][(StepOf("poll") /\ rs.now)
         => /\ state' = "probe" /\ trans' = "Immediate"
            /\ clock' = clock
            /\ ~rs'.now]_vars

\* C13: EntryPoint changes no runtime setting and returns (Park, Never)
\* when polling is disabled and (Poll, Immediate) when it is enabled.
C13_EntryPointParksNever ==
    [][StepOf("entry_point")
         => /\ rs' = rs /\ persisted' = persisted
            /\ IF settings.polling_enabled
               THEN state' = "poll" /\ trans' = "Immediate"
               ELSE state' = "park" /\ trans' = "Never"]_vars

\* C13, as amended: EntryPoint changes no runtime setting and returns
\* (Park, Immediate) when polling is disabled and (Poll, Immediate) when it
\* is enabled; the Step of Park that follows changes no runtime setting
\* either and returns (Park, Never).
C13_EntryPoint ==
    /\ [][StepOf("entry_point")
            => /\ rs' = rs /\ persisted' = persisted
               /\ trans' = "Immediate"
               /\ state' = IF settings.polling_enabled
                           THEN "poll" ELSE "park"]_vars
    /\ [][StepOf("park")
            => /\ rs' = rs /\ persisted' = persisted
               /\ state' = "park" /\ trans' = "Never"]_vars

C13_Witness ==
    /\ ~settings.polling_enabled
    /\ last_step = "park" /\ state = "park" /\ trans = "Never"
    /\ rs = DefaultRuntimeSettings

C15_StepSequence ==
    /\ [][(StepOf("entry_point") /\ settings.polling_enabled)
            => state' = "poll"]_vars
    /\ [][(StepOf("probe") /\ probe'.kind = "NoUpdate")
            => state' = "entry_point"]_vars
    /\ [][(StepOf("poll") /\ ~rs.now /\ rs.last = NoTime)
            => /\ state' = "probe" /\ trans' = "Immediate"
               /\ clock' = clock]_vars
    /\ [][(StepOf("poll") /\ ~rs.now /\ rs.last = clock
             /\ rs.extra_interval = NoTime)
            => /\ state' = "probe" /\ trans' = "Delayed"
               /\ clock' = clock
               /\ rs'.retries = 0]_vars

C17_OneStepScheduled ==
    /\ [](stepper.scheduled <= 1)
    /\ [](busy => stepper.scheduled = 0)
    /\ [][reply' # "none" => (~busy /\ ~busy')]_vars
    /\ [][(reply' = "RequestAccepted" /\ trans = "Delayed")
            => (stepper'.scheduled = 1 /\ trans' = "Immediate")]_vars

C17_Witness ==
    /\ reply = "RequestAccepted"
    /\ stepper.preempted = "Delayed"
    /\ stepper.scheduled = 1
    /\ ~busy

\* the preemptible states of the state table
PreemptibleStates ==
    {"park", "entry_point", "poll", "probe", "prepare_download", "download",
     "direct_download"}

\* C18: a Probe request is answered RequestAccepted and the state becomes
\* Probe exactly when the current state is preemptible; in every other
\* state it is answered InvalidState and the state is unchanged
C18_ProbeRequest ==
    [][ProbeRequest
         => IF state \in PreemptibleStates
            THEN reply' = "RequestAccepted" /\ state' = "probe"
            ELSE reply' = "InvalidState" /\ state' = state]_vars

\* C19: a Probe request that arrives while the machine is parked is
\* accepted and the Step of the Probe state is scheduled
C19_ProbeWhileParked ==
    [][(ProbeRequest /\ state = "park" /\ trans = "Never")
         => /\ reply' = "RequestAccepted"
            /\ state' = "probe"
            /\ trans' = "Immediate"
            /\ stepper'.scheduled = 1
            /\ ~busy']_vars

\* C20: in Validation, Install and Reboot every external request is
\* answered InvalidState and leaves the state and its package unchanged
C20_NonPreemptible ==
    [][(state \in {"validation", "install", "reboot"} /\ reply' # "none")
         => /\ reply' = "InvalidState"
            /\ state' = state
            /\ pkg' = pkg /\ sig' = sig
            /\ trans' = trans]_vars

C20_Witness ==
    /\ state \in {"validation", "install", "reboot"}
    /\ pkg # NoPkg
    /\ reply = "InvalidState"

\* C21 as claimed: an AbortDownload request is accepted exactly in Download
C21_AbortOnlyInDownload ==
    [][AbortDownloadRequest
         => IF state = "download"
            THEN reply' = "RequestAccepted" /\ state' = "entry_point"
            ELSE reply' = "InvalidState" /\ state' = state]_vars

\* C21: an AbortDownload request is accepted exactly in PrepareDownload and
\* Download: the state becomes EntryPoint and the answer is
\* RequestAccepted; in every other state the answer is InvalidState and
\* the state is unchanged
C21_AbortDownload ==
    [][AbortDownloadRequest
         => IF state \in {"prepare_download", "download"}
            THEN /\ reply' = "RequestAccepted"
                 /\ state' = "entry_point" /\ pkg' = NoPkg
            ELSE /\ reply' = "InvalidState"
                 /\ state' = state /\ pkg' = pkg]_vars

C21_Witness ==
    /\ last_step = "abort_download_request"
    /\ reply = "RequestAccepted"
    /\ state = "entry_point"
    /\ stepper.from = "download"

\* C22: an abort-download request that arrives in PrepareDownload is
\* accepted, its answer carries a message, and the state is EntryPoint at
\* once, with the Step of EntryPoint scheduled
C22_AbortInPrepareDownload ==
    [][(AbortDownloadRequest /\ state = "prepare_download")
         => /\ reply' = "RequestAccepted"
            /\ (reply' = "RequestAccepted" => respond_to(reply') = "message")
            /\ state' = "entry_point"
            /\ trans' = "Immediate"
            /\ files' = files]_vars

C22_Witness ==
    /\ last_step = "abort_download_request"
    /\ reply = "RequestAccepted"
    /\ stepper.from = "prepare_download"
    /\ state = "entry_point" /\ trans = "Immediate"

\* C23: the outcome of a reported step of Download, Install or Reboot is
\* the outcome of its handle, whether the reports succeed or fail: the step
\* ends in the Error state exactly when the handle failed (the error was
\* reported), with the error of the handle
C23_ReportsNeverMask ==
    /\ [][(StepOf("download") /\ reports' # <<>>)
            => IF "error" \in Range(ReportStates(reports'))
               THEN /\ state' = "error"
                    /\ err' \in {"Client", "ObjectsNotReady"}
               ELSE /\ state' = "install" /\ pkg' = pkg
                    /\ trans' = "Immediate" /\ err' = "none"
                    /\ \A o \in TargetObjects : Complete(files', o)]_vars
    /\ [][(StepOf("install") /\ reports' # <<>>)
            => /\ state' = "reboot" /\ pkg' = pkg /\ trans' = "Immediate"
               /\ rs' = InstallHandle(rs, pkg)]_vars
    /\ [][(StepOf("reboot") /\ reports' # <<>>)
            => IF "error" \in Range(ReportStates(reports'))
               THEN state' = "error" /\ err' = "Process"
               ELSE state' \in {"entry_point", "boot"} /\ err' = "none"]_vars

C23_Witness ==
    /\ last_step = "install" /\ state = "reboot"
    /\ ReportStates(reports)
         = <<"installing", "warn", "installed", "warn">>
    /\ rs.applied_package_uid = pkg

\* the steps of the states that run the state-change callback
CallbackStep == StepOf("download") \/ StepOf("install") \/ StepOf("reboot")

\* C24: when the state-change callback of Download, Install or Reboot
\* answers Cancel, the machine moves to EntryPoint with an Immediate
\* transition, the handle is not executed (no GET, no file or installation
\* changed), no report is sent and the runtime settings are unchanged; when
\* it answers Continue the state is handled and its enter report is sent
C24_CallbackCancel ==
    /\ [][(CallbackStep /\ calls' = <<<<"state_change_callback", "Cancel">>>>)
            => /\ state' = "entry_point" /\ trans' = "Immediate"
               /\ pkg' = NoPkg
               /\ gets' = <<>> /\ reports' = <<>>
               /\ rs' = rs /\ persisted' = persisted
               /\ files' = files /\ installs' = installs
               /\ active' = active]_vars
    /\ [][(CallbackStep /\ calls' # <<>>
             /\ Head(calls') = <<"state_change_callback", "Continue">>)
            => /\ reports' # <<>>
               /\ Head(reports').state =
                    CASE state = "download" -> "downloading"
                      [] state = "install"  -> "installing"
                      [] OTHER              -> "rebooting"
               /\ (state = "install" => rs'.applied_package_uid = pkg)]_vars

C24_Witness ==
    /\ last_step = "install"
    /\ calls = <<<<"state_change_callback", "Cancel">>>>
    /\ state = "entry_point"
    /\ pkg = NoPkg
    /\ rs.applied_package_uid = NoPkg
    /\ installs = {}

\* the operations of handle_startup_callbacks that follow the comparison of
\* the expected bank with the active one
StartupOps ==
    {"validate_callback", "validate", "swap_active", "rollback_callback",
     "reboot"}

\* C25: at boot with upgrade-to-installation set, the installation is marked
\* validated only if the expected bank is the active one and the validate
\* callback says Continue; if the expected bank is not the active one no
\* callback, swap or reboot happens; whenever the startup callbacks return
\* without error, upgrade-to-installation and applied-package-uid are unset
\* when the machine starts.
C25_StartupValidation ==
    [][(state = "boot" /\ last_step' = "boot"
          /\ rs.upgrade_to_installation # NoBank)
         => /\ (<<"validate", "ok">> \in Range(calls')
                  => /\ rs.upgrade_to_installation = active
                     /\ <<"validate_callback", "Continue">> \in Range(calls'))
            /\ (rs.upgrade_to_installation # active
                  => /\ \A i \in DOMAIN calls' : calls'[i][1] \notin StartupOps
                     /\ active' = active
                     /\ state' = "entry_point")
            /\ ((state' = "entry_point"
                   /\ <<"log", "error">> \notin Range(calls'))
                  => /\ rs'.upgrade_to_installation = NoBank
                     /\ rs'.applied_package_uid = NoPkg)]_vars

C25_Witness ==
    /\ last_step = "boot" /\ state = "entry_point"
    /\ calls = << <<"active", "ok">>, <<"validate_callback", "Continue">>,
                  <<"validate", "ok">>,
                  <<"reset_installation_settings", "ok">> >>
    /\ rs.upgrade_to_installation = NoBank
    /\ rs.applied_package_uid = NoPkg

\* the failed bootloader (installation-set) calls of handle_startup_callbacks
BootloaderErrors ==
    {<<"active", "error">>, <<"validate", "error">>,
     <<"swap_active", "error">>}

\* C26: a failing startup callback is logged and the machine still starts,
\* except when the failure is a bootloader (installation-set) error: then
\* the machine is not started.
C26_BootloaderErrorFatal ==
    [][(state = "boot" /\ last_step' = "boot"
          /\ <<"log", "error">> \in Range(calls'))
         => IF Range(calls') \cap BootloaderErrors # {}
            THEN state' # "entry_point"
            ELSE state' = "entry_point"]_vars

\* C27: whenever the machine is in Reboot, the force-poll flag is false.
C27_RebootNotForced == state = "reboot" => ~rs.now

\* C27, as amended: whenever the machine is in Reboot, the force-poll flag
\* is true.
C27_RebootForced == state = "reboot" => rs.now

C27_Witness ==
    /\ state = "reboot" /\ last_step = "install"
    /\ calls = << <<"state_change_callback", "Continue">> >>
    /\ ReportStates(reports) = <<"installing", "installed">>
    /\ rs.now
    /\ persisted = DefaultRuntimeSettings

\* C28: whenever Install succeeds and the machine moves to Reboot, the
\* force-poll flag is set, in the file too unless the storage is read-only,
\* and a Poll that finds the flag set moves to Probe without waiting.
C28_InstallForcesPoll ==
    /\ [][(StepOf("install") /\ state' = "reboot")
            => /\ rs'.now
               /\ (~settings.read_only => persisted'.now)]_vars
    /\ [][(StepOf("poll") /\ rs.now)
            => state' = "probe" /\ clock' = clock]_vars

C28_Witness ==
    /\ state = "reboot" /\ last_step = "install"
    /\ ~settings.read_only
    /\ rs.now /\ persisted.now
    /\ persisted.applied_package_uid = "p2"

\* C29: every error a handler returns moves the machine to the Error state,
\* where it stays, with a Step scheduled, until the Error step; the Error
\* step clears the force-poll flag, changes nothing else of the runtime
\* settings and moves to EntryPoint with an Immediate transition.
C29_ErrorRouting ==
    /\ [][(err' # "none") <=> (state' = "error")]_vars
    /\ [][(state' = "error")
            => /\ trans' = "Immediate"
               /\ stepper'.scheduled = 1
               /\ ~busy']_vars
    /\ [][(state = "error" /\ state' # "error") => StepOf("error")]_vars
    /\ [][StepOf("error")
            => /\ state' = "entry_point"
               /\ trans' = "Immediate"
               /\ err' = "none"
               /\ rs' = [rs EXCEPT !.now = FALSE]
               /\ (~settings.read_only => ~persisted'.now)]_vars

C29_Witness ==
    /\ last_step = "error" /\ state = "entry_point"
    /\ trans = "Immediate" /\ err = "none"
    /\ rs.applied_package_uid = "p2"
    /\ ~rs.now

HttpAddress(s) ==
    \E n \in 0..Len(s) :
        SubSeq(s, 1, n) \in {<<"h", "t", "t", "p", ":", "/", "/">>,
                             <<"h", "t", "t", "p", "s", ":", "/", "/">>}

\* C31: the agent goes on only with Settings whose polling interval is at
\* least 60 seconds and whose server address starts with http:// or
\* https://; every configuration file that has a shorter interval or
\* another address ends the process with an error.
C31_SettingsValid ==
    /\ [](state = "boot"
            => /\ settings.interval >= 60
               /\ HttpAddress(settings.server_address))
    /\ []((last_step = "load" /\ conf.file = "ini")
            => (state = "exit" /\ err # "none")
                 <=> (conf.interval < 60
                        \/ ~HttpAddress(conf.server_address)))

C31_Witness ==
    /\ state = "exit" /\ last_step = "load"
    /\ err = "InvalidServerAddress"
    /\ conf.interval = 60
    /\ conf.server_address = <<"h", "t", "t", "p", ":", "/", "a">>

\* C32: a request sent while Probe's retry loop runs is answered after
\* finitely many steps, even if no probe attempt ever succeeds: the mailbox
\* is served again after every failed attempt.
C32_RequestsAnswered == busy ~> Serving

\* the calls of a completed rollback, in the order they are made
RollbackCalls ==
    << <<"active", "ok">>, <<"validate_callback", "Cancel">>,
       <<"swap_active", "ok">>, <<"rollback_callback", "ok">>,
       <<"reset_installation_settings", "ok">>, <<"reboot", "restarted">> >>

C34_InstallFailureAtomic ==
    [][(StepOf("install") /\ ~check_requirements(pkg)
          /\ calls' = << <<"state_change_callback", "Continue">> >>)
         => /\ state' = "error"
            /\ rs'.applied_package_uid = rs.applied_package_uid
            /\ rs'.upgrade_to_installation = rs.upgrade_to_installation
            /\ active' = active]_vars

\* the time the claim lets the probe start: at once when the stored last
\* poll is in the future or a whole interval (the longer of the polling and
\* the extra interval) has passed since, else when that interval has passed
ProbeDue(r, now) ==
    LET extra == IF r.extra_interval = NoTime THEN 0 ELSE r.extra_interval
        wait  == IF extra > PollInterval THEN extra ELSE PollInterval
    IN  IF r.last > now \/ r.last + wait <= now THEN now ELSE r.last + wait

\* C35: Poll always moves to Probe, and with a stored last-poll time the
\* probe starts at once when that time is in the future or the longer of
\* the polling and the extra interval has passed since, and otherwise
\* exactly when it has passed, never later.
C35_PollDue ==
    [][(StepOf("poll") /\ ~rs.now /\ rs.last # NoTime)
         => /\ state' = "probe"
            /\ clock' = ProbeDue(rs, clock)]_vars

\* the download directory after the two prune loops of Download
Pruned ==
    PruneCorrupted(pkg, Inactive(active),
                   PruneLeftover(pkg, Inactive(active), files))

\* C36: after the prune loops of Download every file of the download
\* directory is named by an object of the inactive bank's list and no object
\* file is Corrupted; the loops remove the leftover and the Corrupted files
\* and nothing else, and an object whose file was Corrupted is fetched again
\* without a Range header.
C36_Prune ==
    /\ [](state = "download"
            => /\ \A f \in FileNames :
                    Pruned[f] # Absent => f \in TargetObjects
               /\ \A o \in TargetObjects : Status(o, Pruned) # "Corrupted"
               /\ \A f \in FileNames :
                    Pruned[f] = IF \/ f \notin TargetObjects
                                   \/ Status(f, files) = "Corrupted"
                                THEN Absent ELSE files[f])
    /\ [][(StepOf("download") /\ reports' # <<>>)
            => /\ \A f \in FileNames :
                    <<"remove_file", f>> \in Range(calls')
                      <=> /\ files[f] # Absent
                          /\ \/ f \notin TargetObjects
                             \/ Status(f, files) = "Corrupted"
               /\ \A f \in FileNames :
                    files'[f] # Absent => f \in TargetObjects
               /\ \A i \in DOMAIN gets' :
                    Status(gets'[i].object, files) = "Corrupted"
                      => gets'[i].range = -1
               /\ \A o \in TargetObjects :
                    (Status(o, files) = "Corrupted" /\ state' = "install")
                      => /\ [object |-> o, range |-> -1] \in Range(gets')
                         /\ files'[o] = Content(o)]_vars

C36_Witness ==
    /\ last_step = "download" /\ state = "install"
    /\ \E o \in TargetObjects :
         /\ <<"remove_file", o>> \in Range(calls)
         /\ [object |-> o, range |-> -1] \in Range(gets)
         /\ files[o] = Content(o)
    /\ \E f \in FileNames \ TargetObjects :
         <<"remove_file", f>> \in Range(calls)

\* C37: for an existing object file of length len, download_object sends
\* Range: bytes=max(len-1, 0)-; computing the offset never fails, and for an
\* existing empty file the header is bytes=0-.
C37_RangeClamped ==
    [][ClientGet
         => \A o \in {"a", "b"} :
              (calls'[1][3] = o /\ files[o] # Absent)
                => /\ err' # "panic"
                   /\ gets' = <<[object |-> o,
                                 range |-> Max(Len(files[o]) - 1, 0)]>>]_vars

\* the names of the enter and of the leave report of a reporting state
EnterName(s) ==
    CASE s = "download" -> "downloading"
      [] s = "install"  -> "installing"
      [] OTHER          -> "rebooting"

LeaveName(s) ==
    CASE s = "download" -> "downloaded"
      [] s = "install"  -> "installed"
      [] OTHER          -> "rebooted"

\* the reports a step attempted, without the warnings of the failed ones
Attempted(log) == SelectSeq(log, LAMBDA r : r.state # "warn")

\* C38: around each handle of Download, Install or Reboot the enter report
\* is attempted first and exactly one report follows the end of the handle:
\* the leave report after Ok, the error report (previous_state the enter
\* name, the message of the error) after Err; none follows a handle that
\* does not return because the device restarts.
C38_ReportOrder ==
    [][(CallbackStep /\ reports' # <<>>)
         => LET sent == Attempted(reports')
            IN  /\ sent # <<>>
                /\ Head(sent) = Report(EnterName(state), NoField, NoField)
                /\ Len(sent) = IF state' = "boot" THEN 1 ELSE 2
                /\ Len(sent) = 2
                     => sent[2] = IF state' = "error"
                                  THEN Report("error", EnterName(state), err')
                                  ELSE Report(LeaveName(state), NoField,
                                              NoField)]_vars

C38_Witness ==
    /\ last_step = "download" /\ state = "error"
    /\ reports = <<Report("downloading", NoField, NoField),
                   Report("error", "downloading", "ObjectsNotReady")>>

\* C39: DirectDownload moves to PrepareLocalInstall only when the GET
\* succeeded and its body was written to the fetched package file, and the
\* file then holds exactly the fetched body, also when an earlier remote
\* install left a file there; every other outcome leads to Error.
C39_DirectDownload ==
    [][StepOf("direct_download")
         => /\ state' \in {"prepare_local_install", "error"}
            /\ state' = "prepare_local_install"
                 => files'["fetched_pkg"] = FetchedBody]_vars

\* C40: the status of an object is Missing iff its file is absent,
\* Incomplete iff the file is shorter than the object, Ready iff it has the
\* object's length and hash, Corrupted iff it is longer or has the length
\* and another hash: exactly one of the four for every file. Download
\* relies on it: a Ready object is neither removed nor fetched, a file that
\* is overlong or has a wrong hash is removed.
C40_StatusTotal ==
    /\ [](\A o \in {"a", "b"} :
            LET present == files[o] # Absent
                len     == Len(files[o])
            IN  /\ Status(o, files)
                     \in {"Missing", "Incomplete", "Ready", "Corrupted"}
                /\ Status(o, files) = "Missing" <=> ~present
                /\ Status(o, files) = "Incomplete"
                     <=> (present /\ len < ObjSize)
                /\ Status(o, files) = "Ready"
                     <=> (present /\ len = ObjSize /\ Sha256(files[o]) = o)
                /\ Status(o, files) = "Corrupted"
                     <=> /\ present
                         /\ \/ len > ObjSize
                            \/ len = ObjSize /\ Sha256(files[o]) # o)
    /\ [][(StepOf("download") /\ reports' # <<>>)
            => \A o \in TargetObjects :
                 /\ files[o] = Content(o)
                      => /\ <<"remove_file", o>> \notin Range(calls')
                         /\ \A i \in DOMAIN gets' : gets'[i].object # o
                         /\ files'[o] = files[o]
                 /\ (files[o] # Absent /\ Len(files[o]) >= ObjSize
                       /\ files[o] # Content(o))
                      => <<"remove_file", o>> \in Range(calls')]_vars

C40_Witness ==
    /\ last_step = "download" /\ pkg = "p1"
    /\ <<"remove_file", "a">> \in Range(calls)
    /\ \A i \in DOMAIN gets : gets[i].object # "b"
    /\ files["b"] = Content("b")

====
